---- MODULE Spec2Model ----
(***************************************************************************)
(* release-bot: the label <-> board-column synchronisation of main.go, the *)
(* provisioning of a new release board, and the priority-ordered card      *)
(* migration of utilities/transfer-cards.                                  *)
(*                                                                         *)
(* Strings are TLA+ strings; TLC evaluates Len, \o and SubSeq on them, so  *)
(* strings.Split, strings.HasPrefix, the regexp "-rc.*$" and strconv.Atoi  *)
(* are computed character by character.                                    *)
(***************************************************************************)
EXTENDS Integers, Sequences, FiniteSets, TLC

(***************************************************************************)
(* String helpers (Go's strings, regexp and strconv packages)              *)
(***************************************************************************)
Min(a, b) == IF a < b THEN a ELSE b

\* strings.Index(s[i-1:], sub) rebased: least position >= i where sub occurs, 0 if none
RECURSIVE Index(_, _, _)
Index(s, sub, i) ==
    IF i + Len(sub) - 1 > Len(s) THEN 0
    ELSE IF SubSeq(s, i, i + Len(sub) - 1) = sub THEN i
    ELSE Index(s, sub, i + 1)

\* strings.Split(s, sep) for a non-empty separator
RECURSIVE Split(_, _)
Split(s, sep) ==
    LET i == Index(s, sep, 1)
    IN  IF i = 0 THEN <<s>>
        ELSE <<SubSeq(s, 1, i - 1)>> \o Split(SubSeq(s, i + Len(sep), Len(s)), sep)

\* strings.HasPrefix
HasPrefix(s, prefix) ==
    /\ Len(prefix) <= Len(s)
    /\ SubSeq(s, 1, Len(prefix)) = prefix

\* rc.ReplaceAllString(name, "") with rc = regexp.MustCompile("-rc.*$"):
\* the leftmost "-rc" and everything after it is removed
rcReplaceAll(name) ==
    LET i == Index(name, "-rc", 1)
    IN  IF i = 0 THEN name ELSE SubSeq(name, 1, i - 1)

Digits == <<"0", "1", "2", "3", "4", "5", "6", "7", "8", "9">>

IsDigit(c) == \E d \in 1..Len(Digits) : Digits[d] = c

DigitVal(c) == (CHOOSE d \in 1..Len(Digits) : Digits[d] = c) - 1

\* strconv.Atoi for an unsigned decimal: [err, val]
RECURSIVE AtoiAcc(_, _)
AtoiAcc(s, acc) ==
    IF Len(s) = 0 THEN [err |-> FALSE, val |-> acc]
    ELSE IF ~IsDigit(SubSeq(s, 1, 1)) THEN [err |-> TRUE, val |-> 0]
    ELSE AtoiAcc(SubSeq(s, 2, Len(s)), acc * Len(Digits) + DigitVal(SubSeq(s, 1, 1)))

Atoi(s) == IF Len(s) = 0 THEN [err |-> TRUE, val |-> 0] ELSE AtoiAcc(s, 0)

\* a Go map[string]string lookup: the zero value "" for a missing key
MapGet(m, k) == IF k \in DOMAIN m THEN m[k] ELSE ""

Last(seq) == seq[Len(seq)]

\* splitLabel: [err, prefix, suffix]
splitLabelStrict(label) ==
    LET splitResults == Split(label, "/")
    IN  IF Len(splitResults) < 2
        THEN [err |-> TRUE, prefix |-> "", suffix |-> ""]
        ELSE [err |-> FALSE, prefix |-> splitResults[1], suffix |-> splitResults[2]]

splitLabel(label) ==
    LET splitResults == Split(label, "/")
    IN  IF Len(splitResults) # 2
        THEN [err |-> TRUE, prefix |-> "", suffix |-> ""]
        ELSE [err |-> FALSE, prefix |-> splitResults[1], suffix |-> splitResults[2]]

(***************************************************************************)
(* The tracker (GitHub): boards, columns, cards, issues, labels.           *)
(* Boards and columns are fixed here; cards and applied labels change.     *)
(***************************************************************************)
VARIABLES
    cards,      \* column id -> the issue numbers of its cards, top first
    labels,     \* issue number -> the label names applied to it
    pending,    \* webhook deliveries whose goroutine has not run yet
    calls,      \* the mutating tracker calls of the latest handler run
    last,       \* the latest step: "init", "user" or the handler that ran
    chain,      \* the user's label change being followed, or NoChain
    split,      \* splitLabel on its own: [pc, label, out]
    mig,        \* the transfer-cards run
    prov,       \* the board-created handler's run
    procs,      \* goroutines of handleLabelEvent between two tracker calls
    tick,       \* the parity of the handler runs since the users' last change
    lookup,     \* getProject on its own: [pc, boards, prefix, out]
    poll,       \* createProject and its releaseBotDone poll
    opened,     \* the issue-opened handler's run
    agree       \* a board name through provisioning and resolution

\* webhook deliveries the user may have outstanding before acting again
MaxInFlight == 1

\* the tracker's page size for a listing called with nil options
PerPage == 30

RepoOwner == "docker"

RepoName == "rt"

Issues == {42, 43}

\* the issues that carry PullRequestLinks
PullRequests == {43}

IssueURL(n) == "/repos/" \o RepoOwner \o "/" \o RepoName \o "/issues/" \o ToString(n)

ColumnURL(cid) == "/projects/columns/" \o ToString(cid)

ProjectURL(pid) == "/projects/" \o ToString(pid)

\* the repository's boards in listing order
Projects ==
    << [id |-> 1, name |-> "18.09-ee-rc0", state |-> "closed"],
       [id |-> 2, name |-> "18.09-ee-rc1", state |-> "open"] >>

\* the boards' columns in listing order
Columns ==
    << [id |-> 11, name |-> "Triage",        project |-> 1],
       [id |-> 12, name |-> "Cherry Pick",   project |-> 1],
       [id |-> 13, name |-> "Cherry Picked", project |-> 1],
       [id |-> 21, name |-> "Triage",        project |-> 2],
       [id |-> 22, name |-> "Cherry Pick",   project |-> 2],
       [id |-> 23, name |-> "Cherry Picked", project |-> 2],
       [id |-> 24, name |-> "QA",            project |-> 2] >>

ColumnIDs == {Columns[k].id : k \in 1..Len(Columns)}

ColumnByID(cid) == Columns[CHOOSE k \in 1..Len(Columns) : Columns[k].id = cid]

ProjectByID(pid) == Projects[CHOOSE k \in 1..Len(Projects) : Projects[k].id = pid]

ColumnsOf(pid) == {c \in ColumnIDs : ColumnByID(c).project = pid}

\* a card is identified by its board and its content: the tracker refuses a
\* second card for the same issue on one board (422)
CardID(pid, n) == pid * 1000 + n

CardProject(id) == id \div 1000

CardIssue(id) == id % 1000

\* the column holding issue n's card on board pid in card state cs, 0 if none
CardColumn(cs, pid, n) ==
    LET hit == {c \in ColumnsOf(pid) : \E j \in 1..Len(cs[c]) : cs[c][j] = n}
    IN  IF hit = {} THEN 0 ELSE CHOOSE c \in hit : TRUE

Without(seq, n) == SelectSeq(seq, LAMBDA x : x # n)

\* the first page of a listing
FirstPage(seq) == SubSeq(seq, 1, Min(Len(seq), PerPage))

\* Repositories.ListProjects(State: state), no page option, for a repository
\* whose boards are all, in listing order
ListProjectsOf(all, state) == FirstPage(SelectSeq(all, LAMBDA p : p.state = state))

ListProjects(state) == ListProjectsOf(Projects, state)

\* Projects.ListProjectColumns(projectID, nil)
ListProjectColumns(pid) == FirstPage(SelectSeq(Columns, LAMBDA c : c.project = pid))

\* Projects.ListProjectCards(columnID, nil) in card state cs
ListProjectCards(cs, cid) ==
    LET page == FirstPage(cs[cid])
    IN  [j \in 1..Len(page) |->
            [id |-> CardID(ColumnByID(cid).project, page[j]),
             content_url |-> IssueURL(page[j])]]

\* a tracker that lets a board hold several cards for one issue
CreateCardUnchecked(cs, cid, n) == TRUE

\* Projects.CreateProjectCard: refused when the board already holds the issue;
\* the new card is inserted at the top of the column
CreateCardOK(cs, cid, n) == CardColumn(cs, ColumnByID(cid).project, n) = 0

CreateCard(cs, cid, n) == [cs EXCEPT ![cid] = <<n>> \o @]

MoveCardToBottom(cs, id, cid) ==
    LET from == CardColumn(cs, CardProject(id), CardIssue(id))
        out  == [cs EXCEPT ![from] = Without(@, CardIssue(id))]
    IN  [out EXCEPT ![cid] = @ \o <<CardIssue(id)>>]

\* Projects.MoveProjectCard(cardID, Position: "top", ColumnID: cid)
MoveCardOK(cs, id, cid) ==
    /\ CardColumn(cs, CardProject(id), CardIssue(id)) # 0
    /\ ColumnByID(cid).project = CardProject(id)

MoveCard(cs, id, cid) ==
    LET from == CardColumn(cs, CardProject(id), CardIssue(id))
        out  == [cs EXCEPT ![from] = Without(@, CardIssue(id))]
    IN  [out EXCEPT ![cid] = <<CardIssue(id)>> \o @]

\* Projects.DeleteProjectCard(cardID)
DeleteCardOK(cs, id) == CardColumn(cs, CardProject(id), CardIssue(id)) # 0

DeleteCard(cs, id) ==
    LET from == CardColumn(cs, CardProject(id), CardIssue(id))
    IN  [cs EXCEPT ![from] = Without(@, CardIssue(id))]

(***************************************************************************)
(* Webhook deliveries and the log of mutating calls                        *)
(***************************************************************************)
LabelEvent(type, n, label) ==
    [type |-> type, issue |-> n, label |-> label, content_url |-> "", column_url |-> ""]

CardEvent(type, n, cid) ==
    [type |-> type, issue |-> 0, label |-> "",
     content_url |-> IssueURL(n), column_url |-> ColumnURL(cid)]

Call(op, target, n, arg, ok) ==
    [op |-> op, target |-> target, issue |-> n, arg |-> arg, ok |-> ok]

\* what a handler run does: the tracker afterwards, the calls it issued and
\* the deliveries its successful mutations cause
Outcome(cs, ls, cl, evs) == [cards |-> cs, labels |-> ls, calls |-> cl, events |-> evs]

Nothing == Outcome(cards, labels, <<>>, {})

\* a run's failing calls: 0 stands for its read calls, k >= 1 for its k-th
\* mutating call; at most one call of a run fails
FailSets == {{}} \cup {{k} : k \in 0..3}

StageToColumn ==
    [s \in {"triage", "cherry-pick", "cherry-picked"} |->
        CASE s = "triage" -> "Triage"
          [] s = "cherry-pick" -> "Cherry Pick"
          [] s = "cherry-picked" -> "Cherry Picked"]

ColumnToStage ==
    [c \in {"Triage", "Cherry Pick", "Cherry Picked"} |->
        CASE c = "Triage" -> "triage"
          [] c = "Cherry Pick" -> "cherry-pick"
          [] c = "Cherry Picked" -> "cherry-picked"]

Max(S) == CHOOSE x \in S : \A y \in S : y <= x

MinOf(S) == CHOOSE x \in S : \A y \in S : x <= y

\* getProject: the first open board whose name starts with projectPrefix
getProjectOf(all, projectPrefix) ==
    LET projects == ListProjectsOf(all, "open")
        hit == {k \in 1..Len(projects) : HasPrefix(projects[k].name, projectPrefix)}
    IN  IF hit = {} THEN [err |-> TRUE, id |-> 0, name |-> ""]
        ELSE [err |-> FALSE, id |-> projects[MinOf(hit)].id, name |-> projects[MinOf(hit)].name]

getProject(projectPrefix) == getProjectOf(Projects, projectPrefix)

columnNameForRaw(labelSuffix) == labelSuffix

\* the label handlers' columnName
columnNameFor(labelSuffix) ==
    LET columnName == MapGet(StageToColumn, labelSuffix)
    IN  IF columnName = "" THEN labelSuffix ELSE columnName

\* the last column named columnName (the loop overwrites destColumn), 0 if none
destColumnOf(columns, columnName) ==
    LET hit == {k \in 1..Len(columns) : columns[k].name = columnName}
    IN  IF hit = {} THEN 0 ELSE columns[Max(hit)].id

\* the (column index, card index) pairs of the listed cards whose ContentURL
\* is url
cardHits(cs, columns, url) ==
    UNION { { <<k, j>> : j \in { i \in 1..Len(ListProjectCards(cs, columns[k].id)) :
                                    ListProjectCards(cs, columns[k].id)[i].content_url = url } } :
            k \in 1..Len(columns) }

Before(a, b) == a[1] < b[1] \/ (a[1] = b[1] /\ a[2] < b[2])

LastHit(hits) == CHOOSE a \in hits : \A b \in hits : a = b \/ Before(b, a)

FirstHit(hits) == CHOOSE a \in hits : \A b \in hits : a = b \/ Before(a, b)

HitCard(cs, columns, kj) == ListProjectCards(cs, columns[kj[1]].id)[kj[2]]

(***************************************************************************)
(* The handlers of main.go, each a function of the delivery e and of the   *)
(* set F of its calls that fail                                            *)
(***************************************************************************)
handleLabelEventAlwaysCreate(e, F) ==
    LET sl == splitLabel(e.label)
        project == getProject(sl.prefix)
        columns == ListProjectColumns(project.id)
        columnID == destColumnOf(columns, columnNameFor(sl.suffix))
        contentType == IF e.issue \in PullRequests THEN "PullRequest" ELSE "Issue"
        ok == 1 \notin F /\ CreateCardOK(cards, columnID, e.issue)
    IN  IF sl.err \/ 0 \in F \/ project.err \/ columnID = 0 THEN Nothing
        ELSE Outcome(IF ok THEN CreateCard(cards, columnID, e.issue) ELSE cards, labels,
                     <<Call("CreateProjectCard", columnID, e.issue, contentType, ok)>>,
                     IF ok THEN {CardEvent("created", e.issue, columnID)} ELSE {})

\* handleLabelEvent on card state cs and label state ls
handleLabelEventOn(cs, ls, e, F) ==
    LET sl == splitLabel(e.label)
        project == getProject(sl.prefix)
        columns == ListProjectColumns(project.id)
        columnName == columnNameFor(sl.suffix)
        columnID == destColumnOf(columns, columnName)
        hits == cardHits(cs, columns, IssueURL(e.issue))
        cardID == IF hits = {} THEN 0 ELSE HitCard(cs, columns, LastHit(hits)).id
        sourceColumn == IF hits = {} THEN 0 ELSE columns[LastHit(hits)[1]].id
        contentType == IF e.issue \in PullRequests THEN "PullRequest" ELSE "Issue"
    IN  IF sl.err \/ 0 \in F \/ project.err THEN Outcome(cs, ls, <<>>, {})
        ELSE IF columnID = 0 THEN Outcome(cs, ls, <<>>, {})
        ELSE IF cardID = 0 THEN
            LET ok == 1 \notin F /\ CreateCardOK(cs, columnID, e.issue)
            IN  Outcome(IF ok THEN CreateCard(cs, columnID, e.issue) ELSE cs, ls,
                        <<Call("CreateProjectCard", columnID, e.issue, contentType, ok)>>,
                        IF ok THEN {CardEvent("created", e.issue, columnID)} ELSE {})
        ELSE IF sourceColumn = columnID THEN Outcome(cs, ls, <<>>, {})
        ELSE
            LET ok == 1 \notin F /\ MoveCardOK(cs, cardID, columnID)
            IN  Outcome(IF ok THEN MoveCard(cs, cardID, columnID) ELSE cs, ls,
                        <<Call("MoveProjectCard", columnID, CardIssue(cardID), "top", ok)>>,
                        IF ok THEN {CardEvent("moved", CardIssue(cardID), columnID)} ELSE {})

handleLabelEvent(e, F) == handleLabelEventOn(cards, labels, e, F)

\* an unlabel handler that deletes the first card of the column it scans first
handleUnlabelEventFirstCard(e, F) ==
    LET sl == splitLabel(e.label)
        project == getProject(sl.prefix)
        columns == ListProjectColumns(project.id)
        nonEmpty == {k \in 1..Len(columns) : Len(ListProjectCards(cards, columns[k].id)) > 0}
        k0 == MinOf(nonEmpty)
        cardID == ListProjectCards(cards, columns[k0].id)[1].id
        ok == 1 \notin F /\ DeleteCardOK(cards, cardID)
    IN  IF sl.err \/ 0 \in F \/ project.err \/ nonEmpty = {} THEN Nothing
        ELSE Outcome(IF ok THEN DeleteCard(cards, cardID) ELSE cards, labels,
                     <<Call("DeleteProjectCard", columns[k0].id, CardIssue(cardID), "", ok)>>,
                     IF ok THEN {CardEvent("deleted", CardIssue(cardID), columns[k0].id)} ELSE {})

handleUnlabelEvent(e, F) ==
    LET sl == splitLabel(e.label)
        project == getProject(sl.prefix)
        columns == ListProjectColumns(project.id)
        hits == cardHits(cards, columns, IssueURL(e.issue))
        cardID == HitCard(cards, columns, FirstHit(hits)).id
        from == columns[FirstHit(hits)[1]].id
        ok == 1 \notin F /\ DeleteCardOK(cards, cardID)
    IN  IF sl.err \/ 0 \in F \/ project.err \/ hits = {} THEN Nothing
        ELSE Outcome(IF ok THEN DeleteCard(cards, cardID) ELSE cards, labels,
                     <<Call("DeleteProjectCard", from, CardIssue(cardID), "", ok)>>,
                     IF ok THEN {CardEvent("deleted", CardIssue(cardID), from)} ELSE {})

\* getRelatedColumn: [err, column]
getRelatedColumn(column_url) ==
    LET columnBits == Split(column_url, "/")
        columnID == Atoi(Last(columnBits))
    IN  IF columnID.err \/ columnID.val \notin ColumnIDs
        THEN [err |-> TRUE, column |-> [id |-> 0, name |-> "", project |-> 0]]
        ELSE [err |-> FALSE, column |-> ColumnByID(columnID.val)]

\* getRelatedProject: [err, project]
getRelatedProject(column_url) ==
    LET rc == getRelatedColumn(column_url)
        projectBits == Split(ProjectURL(rc.column.project), "/")
        projectID == Atoi(Last(projectBits))
    IN  IF rc.err \/ projectID.err
        THEN [err |-> TRUE, project |-> [id |-> 0, name |-> "", state |-> ""]]
        ELSE [err |-> FALSE, project |-> ProjectByID(projectID.val)]

\* labelsToDelete of the two card handlers
canonicalLabels(labelPrefix) ==
    << labelPrefix \o "/triage", labelPrefix \o "/cherry-pick", labelPrefix \o "/cherry-picked" >>

\* Issues.ListLabelsByIssue(issueNum, nil); an issue's labels fit one page
ListLabelsByIssue(ls, n) == ls[n]

\* the calls of a label loop: todo[k] is "add", "remove" or "" for labelsToDelete[k];
\* the j-th issued call fails when j is in F, a removal also when the label is
\* not applied (404)
labelLoop(n, names, todo, F) ==
    LET issued == SelectSeq(<<1, 2, 3>>, LAMBDA k : todo[k] # "")
        okAt(j) == /\ j \notin F
                   /\ todo[issued[j]] = "remove" => names[issued[j]] \in labels[n]
        added == {names[issued[j]] : j \in {i \in 1..Len(issued) : todo[issued[i]] = "add" /\ okAt(i)}}
        removed == {names[issued[j]] : j \in {i \in 1..Len(issued) : todo[issued[i]] = "remove" /\ okAt(i)}}
    IN  Outcome(cards,
                [labels EXCEPT ![n] = (@ \cup added) \ removed],
                [j \in 1..Len(issued) |->
                    Call(IF todo[issued[j]] = "add" THEN "AddLabelsToIssue" ELSE "RemoveLabelForIssue",
                         0, n, names[issued[j]], okAt(j))],
                {LabelEvent("labeled", n, l) : l \in added \ labels[n]}
                    \cup {LabelEvent("unlabeled", n, l) : l \in removed})

handleProjectCardChangedEventNoGuard(e, F) ==
    LET rc == getRelatedColumn(e.column_url)
        rp == getRelatedProject(e.column_url)
        labelPrefix == rcReplaceAll(rp.project.name)
        labelsToDelete == canonicalLabels(labelPrefix)
        columnName == MapGet(ColumnToStage, rc.column.name)
        issueNum == Atoi(Last(Split(e.content_url, "/")))
        todo == [k \in 1..3 |->
                    IF labelsToDelete[k] = labelPrefix \o "/" \o columnName THEN "add" ELSE "remove"]
    IN  IF rc.err \/ rp.err \/ issueNum.err \/ 0 \in F THEN Nothing
        ELSE labelLoop(issueNum.val, labelsToDelete, todo, F)

handleProjectCardChangedEventAddOnly(e, F) ==
    LET rc == getRelatedColumn(e.column_url)
        rp == getRelatedProject(e.column_url)
        labelPrefix == rcReplaceAll(rp.project.name)
        labelsToDelete == canonicalLabels(labelPrefix)
        columnName == MapGet(ColumnToStage, rc.column.name)
        issueNum == Atoi(Last(Split(e.content_url, "/")))
        appliedLabels == ListLabelsByIssue(labels, issueNum.val)
        todo == [k \in 1..3 |->
                    IF labelsToDelete[k] = labelPrefix \o "/" \o columnName
                       /\ labelsToDelete[k] \notin appliedLabels
                    THEN "add" ELSE ""]
    IN  IF rc.err \/ rp.err \/ issueNum.err \/ 0 \in F THEN Nothing
        ELSE labelLoop(issueNum.val, labelsToDelete, todo, F)

handleProjectCardChangedEvent(e, F) ==
    LET rc == getRelatedColumn(e.column_url)
        rp == getRelatedProject(e.column_url)
        labelPrefix == rcReplaceAll(rp.project.name)
        labelsToDelete == canonicalLabels(labelPrefix)
        columnName == MapGet(ColumnToStage, rc.column.name)
        issueNum == Atoi(Last(Split(e.content_url, "/")))
        appliedLabels == ListLabelsByIssue(labels, issueNum.val)
        todo == [k \in 1..3 |->
                    IF labelsToDelete[k] = labelPrefix \o "/" \o columnName
                    THEN (IF labelsToDelete[k] \notin appliedLabels THEN "add" ELSE "")
                    ELSE (IF labelsToDelete[k] \in appliedLabels THEN "remove" ELSE "")]
    IN  IF rc.err \/ rp.err \/ issueNum.err \/ 0 \in F THEN Nothing
        ELSE labelLoop(issueNum.val, labelsToDelete, todo, F)

\* a card-deleted handler that removes only the labels that are applied
handleProjectCardDeletedEventAppliedOnly(e, F) ==
    LET rp == getRelatedProject(e.column_url)
        labelPrefix == rcReplaceAll(rp.project.name)
        issueNum == Atoi(Last(Split(e.content_url, "/")))
        labelsToDelete == canonicalLabels(labelPrefix)
        todo == [k \in 1..3 |->
                    IF labelsToDelete[k] \in ListLabelsByIssue(labels, issueNum.val)
                    THEN "remove" ELSE ""]
    IN  IF rp.err \/ 0 \in F \/ issueNum.err THEN Nothing
        ELSE labelLoop(issueNum.val, labelsToDelete, todo, F)

handleProjectCardDeletedEvent(e, F) ==
    LET rp == getRelatedProject(e.column_url)
        labelPrefix == rcReplaceAll(rp.project.name)
        issueNum == Atoi(Last(Split(e.content_url, "/")))
        labelsToDelete == canonicalLabels(labelPrefix)
    IN  IF rp.err \/ 0 \in F \/ issueNum.err THEN Nothing
        ELSE labelLoop(issueNum.val, labelsToDelete, [k \in 1..3 |-> "remove"], F)

(***************************************************************************)
(* Specification Spec: users change labels and cards, the tracker delivers *)
(* a webhook for every change (the bot's own included), and                *)
(* handleGithubWebhook starts one goroutine per delivery.                  *)
(***************************************************************************)
vars == <<cards, labels, pending, calls, last, chain, split, mig, prov, procs, tick, lookup, poll, opened, agree>>

Off == [pc |-> "off"]

\* no goroutine is being followed step by step
NoProcs == <<>>

Release == "18.09-ee"

Canonical == {Release \o "/triage", Release \o "/cherry-pick", Release \o "/cherry-picked"}

\* the labels users apply to issue n
UserLabels(n) == IF n \in PullRequests THEN {Release \o "/triage"} ELSE Canonical \cup {Release \o "/QA"}

\* the columns users put issue n's card in: columns of the open board
UserColumns(n) ==
    IF n \in PullRequests THEN {c \in ColumnIDs : ColumnByID(c).project = 2 /\ ColumnByID(c).name = "Triage"}
    ELSE {c \in ColumnIDs : ProjectByID(ColumnByID(c).project).state = "open"}

\* the column of the open release board that stands for a canonical label
ColumnOfLabel ==
    [l \in Canonical |->
        CASE l = Release \o "/triage" -> 21
          [] l = Release \o "/cherry-pick" -> 22
          [] l = Release \o "/cherry-picked" -> 23]

BoardOfLabel(l) == ColumnByID(ColumnOfLabel[l]).project

NoChain == [issue |-> 0, label |-> ""]

\* the number of cards that reference issue n on board pid
CardCount(cs, pid, n) ==
    Cardinality({cj \in UNION {{<<c, j>> : j \in 1..Len(cs[c])} : c \in ColumnsOf(pid)} :
                    cs[cj[1]][cj[2]] = n})

\* issue n carries exactly one canonical label and its card sits in that label's column
SyncedOn(n, l) ==
    /\ labels[n] \cap Canonical = {l}
    /\ CardCount(cards, BoardOfLabel(l), n) = 1
    /\ CardColumn(cards, BoardOfLabel(l), n) = ColumnOfLabel[l]

Init ==
    /\ cards = [c \in ColumnIDs |-> <<>>]
    /\ labels = [n \in Issues |-> {}]
    /\ pending = {}
    /\ calls = <<>>
    /\ last = "init"
    /\ chain = NoChain
    /\ split = Off
    /\ mig = Off
    /\ prov = Off
    /\ procs = NoProcs
    /\ tick = 0
    /\ lookup = Off
    /\ poll = Off
    /\ opened = Off
    /\ agree = Off

\* one goroutine of handleGithubWebhook: handler op runs to its end on delivery e
Run(op, e, F, out) ==
    /\ cards' = out.cards
    /\ labels' = out.labels
    /\ calls' = out.calls
    /\ pending' = (pending \ {e}) \cup out.events
    /\ last' = op
    /\ tick' = 1 - tick
    /\ chain' = IF F = {} THEN chain ELSE NoChain
    /\ UNCHANGED <<split, mig, prov, procs, lookup, poll, opened, agree>>

HandleLabelEvent(e, F) ==
    /\ e \in pending
    /\ e.type = "labeled"
    /\ Run("handleLabelEvent", e, F, handleLabelEvent(e, F))

HandleUnlabelEvent(e, F) ==
    /\ e \in pending
    /\ e.type = "unlabeled"
    /\ Run("handleUnlabelEvent", e, F, handleUnlabelEvent(e, F))

HandleProjectCardChangedEvent(e, F) ==
    /\ e \in pending
    /\ e.type \in {"created", "moved"}
    /\ Run("handleProjectCardChangedEvent", e, F, handleProjectCardChangedEvent(e, F))

HandleProjectCardDeletedEvent(e, F) ==
    /\ e \in pending
    /\ e.type = "deleted"
    /\ Run("handleProjectCardDeletedEvent", e, F, handleProjectCardDeletedEvent(e, F))

\* the users' changes, each delivered as a webhook
CanAct == Cardinality(pending) < MaxInFlight

User(e, startsChain) ==
    /\ pending' = pending \cup {e}
    /\ calls' = <<>>
    /\ last' = "user"
    /\ tick' = 0
    /\ chain' = IF startsChain THEN [issue |-> e.issue, label |-> e.label] ELSE NoChain
    /\ UNCHANGED <<split, mig, prov, procs, lookup, poll, opened, agree>>

UserAddLabel(n, l) ==
    /\ CanAct
    /\ l \notin labels[n]
    /\ labels' = [labels EXCEPT ![n] = @ \cup {l}]
    /\ UNCHANGED cards
    /\ User(LabelEvent("labeled", n, l),
            /\ pending = {}
            /\ l \in Canonical
            /\ \E l1 \in Canonical \ {l} : SyncedOn(n, l1))

UserRemoveLabel(n, l) ==
    /\ CanAct
    /\ l \in labels[n]
    /\ labels' = [labels EXCEPT ![n] = @ \ {l}]
    /\ UNCHANGED cards
    /\ User(LabelEvent("unlabeled", n, l), FALSE)

UserCreateCard(n, c) ==
    /\ CanAct
    /\ CreateCardOK(cards, c, n)
    /\ cards' = CreateCard(cards, c, n)
    /\ UNCHANGED labels
    /\ User(CardEvent("created", n, c), FALSE)

UserMoveCard(n, c) ==
    /\ CanAct
    /\ MoveCardOK(cards, CardID(ColumnByID(c).project, n), c)
    /\ CardColumn(cards, ColumnByID(c).project, n) # c
    /\ cards' = MoveCard(cards, CardID(ColumnByID(c).project, n), c)
    /\ UNCHANGED labels
    /\ User(CardEvent("moved", n, c), FALSE)

UserDeleteCard(n, c) ==
    /\ CanAct
    /\ CardColumn(cards, ColumnByID(c).project, n) = c
    /\ cards' = DeleteCard(cards, CardID(ColumnByID(c).project, n))
    /\ UNCHANGED labels
    /\ User(CardEvent("deleted", n, c), FALSE)

Next ==
    \/ \E e \in pending, F \in FailSets : HandleLabelEvent(e, F)
    \/ \E e \in pending, F \in FailSets : HandleUnlabelEvent(e, F)
    \/ \E e \in pending, F \in FailSets : HandleProjectCardChangedEvent(e, F)
    \/ \E e \in pending, F \in FailSets : HandleProjectCardDeletedEvent(e, F)
    \/ \E n \in Issues : \E l \in UserLabels(n) : UserAddLabel(n, l)
    \/ \E n \in Issues : \E l \in UserLabels(n) : UserRemoveLabel(n, l)
    \/ \E n \in Issues : \E c \in UserColumns(n) : UserCreateCard(n, c)
    \/ \E n \in Issues : \E c \in UserColumns(n) : UserMoveCard(n, c)
    \/ \E n \in Issues : \E c \in UserColumns(n) : UserDeleteCard(n, c)

Spec == Init /\ [][Next]_vars

(***************************************************************************)
(* Properties of Spec                                                      *)
(***************************************************************************)
\* the column of the open release board a stage label of Release stands for
StageColumnOf ==
    [l \in Canonical \cup {Release \o "/QA"} |->
        IF l \in Canonical THEN ColumnOfLabel[l] ELSE 24]

\* the canonical label a column of the open release board stands for
LabelOfColumn == [c \in {ColumnOfLabel[l] : l \in Canonical} |->
                    CHOOSE l \in Canonical : ColumnOfLabel[l] = c]

OpenBoard == Projects[2].id

\* the number of cards on board pid
BoardSize(cs, pid) ==
    Cardinality(UNION {{<<c, j>> : j \in 1..Len(cs[c])} : c \in ColumnsOf(pid)})

CallsOf(op) == {j \in 1..Len(calls) : calls[j].op = op}

\* C1: from an issue carrying R/S1 with its card in column S1, once the user
\* has added R/S2 and every handler has run (no delivery pending, no call
\* failed), the issue has exactly one card on the board, in the column of S2,
\* and carries R/S2 as its only canonical label.
C1_LabelChangeConverges ==
    (chain # NoChain /\ pending = {}) =>
        /\ CardCount(cards, BoardOfLabel(chain.label), chain.issue) = 1
        /\ CardColumn(cards, BoardOfLabel(chain.label), chain.issue) = ColumnOfLabel[chain.label]
        /\ labels[chain.issue] \cap Canonical = {chain.label}

\* C2: handleProjectCardChangedEvent, run with every call succeeding for a
\* card created in or moved into a canonical column, leaves the issue with
\* that column's stage label as its only canonical label, whatever canonical
\* labels it carried before.
C2_PlacementToLabelRoundTrip ==
    [][\A n \in Issues : \A c \in DOMAIN LabelOfColumn : \A t \in {"created", "moved"} :
          HandleProjectCardChangedEvent(CardEvent(t, n, c), {})
              => labels'[n] \cap Canonical = {LabelOfColumn[c]}]_vars

\* C2 witness: the handler has added the column's label and removed another
\* canonical label, leaving exactly one.
C2_Witness ==
    /\ last = "handleProjectCardChangedEvent"
    /\ CallsOf("AddLabelsToIssue") # {}
    /\ CallsOf("RemoveLabelForIssue") # {}
    /\ \A j \in 1..Len(calls) : calls[j].ok
    /\ Cardinality(labels[calls[1].issue] \cap Canonical) = 1

\* C3: after handleLabelEvent has run for a label whose column exists, the
\* issue has exactly one card on the board, in the destination column, and a
\* second run for the same delivery issues no call (no create, no move).
C3_LabelToPlacementIdempotent ==
    [][\A n \in Issues : \A l \in DOMAIN StageColumnOf :
          HandleLabelEvent(LabelEvent("labeled", n, l), {})
              => /\ CardCount(cards', OpenBoard, n) = 1
                 /\ CardColumn(cards', OpenBoard, n) = StageColumnOf[l]
                 /\ handleLabelEventOn(cards', labels', LabelEvent("labeled", n, l), {}).calls = <<>>
                 /\ handleLabelEventOn(cards', labels', LabelEvent("labeled", n, l), {}).cards = cards']_vars

\* C3 witness: a first run created or moved the card, and a second run for
\* the same label would issue no call.
C3_Witness ==
    /\ last = "handleLabelEvent"
    /\ Len(calls) = 1
    /\ calls[1].ok
    /\ \E l \in DOMAIN StageColumnOf :
          /\ calls[1].target = StageColumnOf[l]
          /\ CardColumn(cards, OpenBoard, calls[1].issue) = StageColumnOf[l]
          /\ handleLabelEvent(LabelEvent("labeled", calls[1].issue, l), {}).calls = <<>>

\* C4 as stated: handleProjectCardChangedEvent, run for a card whose column's
\* stage label is already applied, issues no add-label and no remove-label call.
C4_NoCallsWhenLabelPresent ==
    [][\A n \in Issues : \A c \in DOMAIN LabelOfColumn : \A t \in {"created", "moved"} :
       \A F \in FailSets :
          (HandleProjectCardChangedEvent(CardEvent(t, n, c), F) /\ LabelOfColumn[c] \in labels[n])
              => calls' = <<>>]_vars

\* C4 amended: run for a card whose column's stage label is already applied,
\* the handler issues no add-label call; its only calls remove the other
\* canonical labels that are applied, so it issues no call at all when the
\* stage label is the only canonical label applied.
C4_NoAddWhenLabelPresent ==
    [][\A n \in Issues : \A c \in DOMAIN LabelOfColumn : \A t \in {"created", "moved"} :
       \A F \in FailSets :
          (HandleProjectCardChangedEvent(CardEvent(t, n, c), F) /\ LabelOfColumn[c] \in labels[n])
              => /\ \A j \in 1..Len(calls') :
                      /\ calls'[j].op = "RemoveLabelForIssue"
                      /\ calls'[j].issue = n
                      /\ calls'[j].arg \in (labels[n] \cap Canonical) \ {LabelOfColumn[c]}
                 /\ labels[n] \cap Canonical = {LabelOfColumn[c]} => calls' = <<>>]_vars

\* C4 witness: the handler ran for a card whose column's label was applied
\* (it is applied and was not added) and only removed another label.
C4_Witness ==
    /\ last = "handleProjectCardChangedEvent"
    /\ Len(calls) = 1
    /\ calls[1].op = "RemoveLabelForIssue"
    /\ calls[1].ok
    /\ \E l \in Canonical : SyncedOn(calls[1].issue, l)

\* C6: when a stage label is added, the open board and the stage's column
\* exist, no card on the board references the issue and the listings succeed,
\* handleLabelEvent issues exactly one call: create-card in the stage's
\* column for that issue, with content type PullRequest for a pull request
\* and Issue otherwise.
C6_CreatesOneCard ==
    [][\A n \in Issues : \A l \in DOMAIN StageColumnOf : \A F \in FailSets \ {{0}} :
          (HandleLabelEvent(LabelEvent("labeled", n, l), F) /\ CardCount(cards, OpenBoard, n) = 0)
              => /\ Len(calls') = 1
                 /\ calls'[1].op = "CreateProjectCard"
                 /\ calls'[1].target = StageColumnOf[l]
                 /\ calls'[1].issue = n
                 /\ calls'[1].arg = (IF n \in PullRequests THEN "PullRequest" ELSE "Issue")]_vars

\* C6 witness: a card was created for a pull request in the stage's column.
C6_Witness ==
    /\ last = "handleLabelEvent"
    /\ Len(calls) = 1
    /\ calls[1].op = "CreateProjectCard"
    /\ calls[1].arg = "PullRequest"
    /\ calls[1].ok
    /\ CardColumn(cards, OpenBoard, calls[1].issue) = calls[1].target

\* C7: when a stage label is added to an issue whose card sits in another
\* column of the open board, handleLabelEvent issues one move-card call to
\* the stage's column at position top and no create: the board keeps its
\* number of cards and the moved card is first in the destination column.
C7_MovesExistingCard ==
    [][\A n \in Issues : \A l \in DOMAIN StageColumnOf :
          (/\ HandleLabelEvent(LabelEvent("labeled", n, l), {})
           /\ CardColumn(cards, OpenBoard, n) \notin {0, StageColumnOf[l]})
              => /\ calls' = <<Call("MoveProjectCard", StageColumnOf[l], n, "top", TRUE)>>
                 /\ BoardSize(cards', OpenBoard) = BoardSize(cards, OpenBoard)
                 /\ CardCount(cards', OpenBoard, n) = 1
                 /\ Head(cards'[StageColumnOf[l]]) = n]_vars

\* C7 witness: a card was moved on top of another card of the destination column.
C7_Witness ==
    /\ last = "handleLabelEvent"
    /\ Len(calls) = 1
    /\ calls[1].op = "MoveProjectCard"
    /\ calls[1].ok
    /\ Len(cards[calls[1].target]) >= 2
    /\ Head(cards[calls[1].target]) = calls[1].issue

\* C9: handleUnlabelEvent issues at most one call, a delete-card for the
\* issue's card; with every call succeeding the issue's card is gone from the
\* board; the cards of every other issue stay in their columns, in order, and
\* no card is created or moved.
C9_UnlabelDeletesOnlyTheCard ==
    [][\A n \in Issues : \A l \in DOMAIN StageColumnOf : \A F \in FailSets :
          HandleUnlabelEvent(LabelEvent("unlabeled", n, l), F)
              => /\ Len(calls') <= 1
                 /\ \A j \in 1..Len(calls') :
                      calls'[j].op = "DeleteProjectCard" /\ calls'[j].issue = n
                 /\ \A c \in ColumnIDs :
                      /\ Without(cards'[c], n) = Without(cards[c], n)
                      /\ Len(cards'[c]) <= Len(cards[c])
                 /\ (F = {} /\ CardCount(cards, OpenBoard, n) = 1)
                      => /\ Len(calls') = 1
                         /\ CardCount(cards', OpenBoard, n) = 0]_vars

\* C9 witness: the issue's card was deleted while another issue's card stays.
C9_Witness ==
    /\ last = "handleUnlabelEvent"
    /\ Len(calls) = 1
    /\ calls[1].op = "DeleteProjectCard"
    /\ calls[1].ok
    /\ CardCount(cards, OpenBoard, calls[1].issue) = 0
    /\ \E m \in Issues \ {calls[1].issue} : CardCount(cards, OpenBoard, m) = 1

\* the columns of the open release board that stand for no stage
CustomColumns == ColumnsOf(OpenBoard) \ {ColumnOfLabel[l] : l \in Canonical}

\* C16: handleProjectCardChangedEvent, run for a card created in or moved
\* into a column that is not Triage, Cherry Pick or Cherry Picked, issues no
\* add-label and no remove-label call and leaves the issue's labels alone.
C16_CustomColumnsNotLabelSynced ==
    [][\A n \in Issues : \A c \in CustomColumns : \A t \in {"created", "moved"} :
       \A F \in FailSets :
          HandleProjectCardChangedEvent(CardEvent(t, n, c), F)
              => (calls' = <<>> /\ labels' = labels)]_vars

\* C20: handleProjectCardDeletedEvent, run for a deleted card of the board
\* of release P whose lookups succeed, issues exactly three calls, the
\* removals of P/triage, P/cherry-pick and P/cherry-picked from the card's
\* issue in that order, whichever labels are applied and whichever removal
\* fails, and adds no label.
C20_DeletedCardRemovesAllThree ==
    [][\A n \in Issues : \A c \in ColumnsOf(OpenBoard) : \A F \in FailSets :
          (HandleProjectCardDeletedEvent(CardEvent("deleted", n, c), F) /\ 0 \notin F)
              => /\ Len(calls') = 3
                 /\ \A j \in 1..3 :
                       /\ calls'[j].op = "RemoveLabelForIssue"
                       /\ calls'[j].issue = n
                 /\ calls'[1].arg = Release \o "/triage"
                 /\ calls'[2].arg = Release \o "/cherry-pick"
                 /\ calls'[3].arg = Release \o "/cherry-picked"
                 /\ labels'[n] \subseteq labels[n]]_vars

\* C20 witness: the handler ran for an issue that did not carry P/triage:
\* that removal failed, and the removal of P/cherry-pick after it succeeded.
C20_Witness ==
    /\ last = "handleProjectCardDeletedEvent"
    /\ Len(calls) = 3
    /\ ~calls[1].ok
    /\ calls[2].ok
    /\ calls[2].arg = Release \o "/cherry-pick"

\* the handlers handleGithubWebhook dispatches to
HandlerNames ==
    {"handleLabelEvent", "handleUnlabelEvent", "handleProjectCardChangedEvent",
     "handleProjectCardDeletedEvent"}

\* a step in which the goroutine of a pending delivery runs: every delivery
\* type has a handler, so such a step is possible exactly when a delivery is
\* pending, and the steps of Next that record a handler in last and flip
\* tick are the handler runs
HandlerStep == pending # {} /\ last' \in HandlerNames /\ tick' = 1 - tick

\* Spec with every started goroutine eventually scheduled
FairSpec == Spec /\ WF_tick(HandlerStep)

\* C15: the handler runs that follow a user's change come to an end: no
\* behaviour goes on for ever with deliveries pending and no further user
\* change, so a state with no pending delivery keeps being reached, and the
\* step that leaves such a state issues no add-label, remove-label,
\* create-card, move-card or delete-card call.
C15_FeedbackChainsEnd ==
    /\ []<>(pending = {} \/ last = "user")
    /\ [][pending = {} => calls' = <<>>]_vars

\* the tracker of Spec at rest, for the specifications that do not use it
TrackerIdle ==
    /\ cards = [c \in ColumnIDs |-> <<>>]
    /\ labels = [n \in Issues |-> {}]
    /\ pending = {}
    /\ calls = <<>>
    /\ last = "init"
    /\ chain = NoChain
    /\ procs = NoProcs
    /\ tick = 0
    /\ lookup = Off
    /\ poll = Off
    /\ opened = Off
    /\ agree = Off

trackerVars == <<cards, labels, pending, calls, last, chain, procs, tick, lookup, poll, opened, agree>>

\* the positions of the open boards whose name starts with the prefix
OpenMatches(boards, prefix) ==
    {j \in 1..Len(boards) : boards[j].state = "open" /\ HasPrefix(boards[j].name, prefix)}

(***************************************************************************)
(* Specification SpecSplit: splitLabel applied to every short string       *)
(***************************************************************************)
\* the longest label tried
MaxLabelLen == 4

Alphabet == {"a", "b", "/"}

RECURSIVE StringsUpTo(_)
StringsUpTo(n) ==
    IF n = 0 THEN {""}
    ELSE StringsUpTo(n - 1) \cup {s \o c : s \in StringsUpTo(n - 1), c \in Alphabet}

NoSplit == [err |-> FALSE, prefix |-> "", suffix |-> ""]

\* labels with one '/' and an empty release or stage part
EmptyPartLabels == {"/triage", "18.09-ee/", "/"}

\* labels of a release without an open board, and of a stage without a column
UnresolvedLabels == {"19.03-ee/triage", "18.09-ee/verify"}

InitSplit ==
    /\ TrackerIdle
    /\ mig = Off
    /\ prov = Off
    /\ split \in {[pc |-> "call", label |-> s, out |-> NoSplit] : s \in StringsUpTo(MaxLabelLen) \cup EmptyPartLabels \cup UnresolvedLabels}

SplitLabel ==
    /\ split.pc = "call"
    /\ split' = [split EXCEPT !.pc = "done", !.out = splitLabel(split.label)]
    /\ UNCHANGED <<trackerVars, mig, prov>>

NextSplit == SplitLabel

SpecSplit == InitSplit /\ [][NextSplit]_vars

\* the number of '/' characters of s
SlashCount(s) == Cardinality({i \in 1..Len(s) : SubSeq(s, i, i) = "/"})

\* C10: for a label with exactly one '/', splitLabel returns (prefix, suffix)
\* with prefix + "/" + suffix equal to the label; for a string with no '/' or
\* with more than one, it returns an error.
C10_SplitLabelRoundTrip ==
    split.pc = "done" =>
        /\ SlashCount(split.label) = 1 =>
              /\ ~split.out.err
              /\ split.out.prefix \o "/" \o split.out.suffix = split.label
        /\ SlashCount(split.label) # 1 => split.out.err

\* C10 witness: a label with one '/' was split into two non-empty parts.
C10_Witness ==
    /\ split.pc = "done"
    /\ ~split.out.err
    /\ split.out.prefix = "ab"
    /\ split.out.suffix = "b"

\* label has exactly one '/', with a character before it and one after it
TwoNonEmptyParts(label) ==
    /\ SlashCount(label) = 1
    /\ SubSeq(label, 1, 1) # "/"
    /\ SubSeq(label, Len(label), Len(label)) # "/"

\* C11: splitLabel succeeds only on a label that splits on '/' into exactly
\* two non-empty parts; for any other label (such as "/triage", "18.09-ee/",
\* "/") it returns an error, and the label handlers run on it resolve no
\* board and issue no mutating call.
C11_RejectsEmptyParts ==
    (split.pc = "done" /\ ~TwoNonEmptyParts(split.label)) =>
        /\ split.out.err
        /\ \A n \in Issues :
              /\ handleLabelEvent(LabelEvent("labeled", n, split.label), {}).calls = <<>>
              /\ handleUnlabelEvent(LabelEvent("unlabeled", n, split.label), {}).calls = <<>>

\* the label names no target: it is malformed, or no open board's name
\* starts with its release part, or that board has no column for its stage
NoTarget(label) ==
    LET sl == splitLabel(label)
        boards == OpenMatches(Projects, sl.prefix)
    IN  \/ ~TwoNonEmptyParts(label)
        \/ boards = {}
        \/ destColumnOf(ListProjectColumns(Projects[MinOf(boards)].id),
                        columnNameFor(sl.suffix)) = 0

\* C19: handleLabelEvent, run for a label that is malformed, or whose release
\* has no open board, or whose stage has no column on the board, issues no
\* mutating call and leaves cards and labels as they are.
C19_NoTargetChangesNothing ==
    (split.pc = "done" /\ NoTarget(split.label)) =>
        \A n \in Issues :
            LET out == handleLabelEvent(LabelEvent("labeled", n, split.label), {})
            IN  out.calls = <<>> /\ out.cards = cards /\ out.labels = labels

(***************************************************************************)
(* Specification SpecMig: moveIssues of utilities/transfer-cards, one      *)
(* action per column of the list to migrate                                *)
(***************************************************************************)
\* the cards of the source board's Triage column
MaxMigCards == 4

MigIssues == 1..MaxMigCards

\* the label lists an issue of the source Triage column may carry
LabelLists ==
    { <<>>, <<"priority/p0">>, <<"priority/p1">>, <<"priority/p2">>,
      <<"priority/p2", "priority/p0">> }

\* the source and the destination board's columns, in listing order
SourceColumns ==
    << [id |-> 31, name |-> "Triage"], [id |-> 32, name |-> "Cherry Pick"],
       [id |-> 33, name |-> "QA"] >>

DestColumns ==
    << [id |-> 41, name |-> "Triage"], [id |-> 42, name |-> "Cherry Pick"] >>

\* the columns of a destination board created by the run, once the bot has
\* provisioned it
CreatedColumns ==
    << [id |-> 51, name |-> "Triage"], [id |-> 52, name |-> "Cherry Pick"],
       [id |-> 53, name |-> "Cherry Picked"] >>

\* ListProjectColumns(destProject.ID) in run m
destColumnsOf(m) == IF m.destCreated THEN CreatedColumns ELSE DestColumns

\* the cards (issue numbers, top first) of every column before the run:
\* issue 8 already has a card on the destination board, issue 9 too
InitialMigCards ==
    [c \in {31, 32, 33, 41, 42, 51, 52, 53} |->
        CASE c = 31 -> [j \in 1..MaxMigCards |-> j]
          [] c = 32 -> <<8>>
          [] c = 41 -> <<9>>
          [] c = 42 -> <<8>>
          [] OTHER -> <<>>]

\* the values of --columns tried
ColumnLists == { <<"Triage">>, <<"Triage", "Cherry Pick">>, <<"Triage", "QA">> }

\* the status every CreateProjectCard of a run is answered with when it is
\* made to fail (0: none is)
CreateFailures == {0, 402, 500}

\* getColumnID: [err, id]
getColumnID(columnToFind, columnHaystack) ==
    LET hit == {k \in 1..Len(columnHaystack) : columnHaystack[k].name = columnToFind}
    IN  IF hit = {} THEN [err |-> TRUE, id |-> 0]
        ELSE [err |-> FALSE, id |-> columnHaystack[MinOf(hit)].id]

\* the priority of moveIssues' label loop: every label containing "priority"
\* overwrites it with the part after the first '/'
RECURSIVE priorityOf(_, _, _)
priorityOf(issueLabels, k, priority) ==
    IF k > Len(issueLabels) THEN priority
    ELSE IF Index(issueLabels[k], "priority", 1) # 0
         THEN priorityOf(issueLabels, k + 1, Split(issueLabels[k], "/")[2])
         ELSE priorityOf(issueLabels, k + 1, priority)

\* the switch of moveIssues: the bucket of a priority
bucketOf(priority) == IF priority \in {"p0", "p1", "p2"} THEN priority ELSE "none"

\* the order in which deleteCards and createCards are called on the buckets
bucketOrder == <<"p2", "p1", "p0", "none">>

\* the labels of issue n in run m (relatedIssue.Labels)
LabelsOfIssue(m, n) ==
    IF n \in DOMAIN m.issueLabels THEN m.issueLabels[n]
    ELSE IF n = 8 THEN <<"priority/p1">> ELSE <<>>

\* the cards in source-column order, whatever their buckets
inSourceOrder(m, sourceCards, order) == sourceCards

\* the buckets concatenated in bucketOrder, each in source-column order
inBucketOrder(m, sourceCards, order) ==
    LET bucket(b) == SelectSeq(sourceCards,
                        LAMBDA n : bucketOf(priorityOf(LabelsOfIssue(m, n), 1, "")) = b)
    IN  bucket(order[1]) \o bucket(order[2]) \o bucket(order[3]) \o bucket(order[4])

\* the destination board holds a card for issue n
OnDestBoard(cols, n) ==
    \E c \in {41, 42, 51, 52, 53} : \E j \in 1..Len(cols[c]) : cols[c][j] = n

\* createCards giving up at the first CreateProjectCard that fails
RECURSIVE createCardsHalting(_, _, _, _, _)
createCardsHalting(cols, log, seq, destColumnID, fail) ==
    IF seq = <<>> THEN [cols |-> cols, log |-> log]
    ELSE LET n == Head(seq)
             status == IF fail # 0 THEN fail
                       ELSE IF OnDestBoard(cols, n) THEN 422 ELSE 201
             entry == [op |-> "CreateProjectCard", column |-> destColumnID,
                       issue |-> n, status |-> status]
         IN  IF status # 201 THEN [cols |-> cols, log |-> Append(log, entry)]
             ELSE createCardsHalting([cols EXCEPT ![destColumnID] = <<n>> \o @],
                                     Append(log, entry), Tail(seq), destColumnID, fail)

\* createCards over seq: [cols, log]
RECURSIVE createCards(_, _, _, _, _)
createCards(cols, log, seq, destColumnID, fail) ==
    IF seq = <<>> THEN [cols |-> cols, log |-> log]
    ELSE LET n == Head(seq)
             status == IF fail # 0 THEN fail
                       ELSE IF OnDestBoard(cols, n) THEN 422 ELSE 201
         IN  createCards(
                IF status = 201 THEN [cols EXCEPT ![destColumnID] = <<n>> \o @] ELSE cols,
                Append(log, [op |-> "CreateProjectCard", column |-> destColumnID,
                             issue |-> n, status |-> status]),
                Tail(seq), destColumnID, fail)

\* an iteration of moveIssues' loop that leaves the source cards in place
moveColumnCopying(m) ==
    LET column == m.columns[m.k]
        sourceColumnID == getColumnID(column, SourceColumns)
        destColumnID == getColumnID(column, destColumnsOf(m))
        created == inBucketOrder(m, m.cols[sourceColumnID.id], bucketOrder)
        after == createCards(m.cols, m.log, created, destColumnID.id, m.fail)
        next == IF m.k = Len(m.columns) THEN "done" ELSE "move"
    IN  IF sourceColumnID.err \/ destColumnID.err THEN [m EXCEPT !.pc = "exit"]
        ELSE IF m.dryrun THEN [m EXCEPT !.pc = next, !.k = @ + 1]
        ELSE [m EXCEPT !.pc = next, !.k = @ + 1, !.cols = after.cols, !.log = after.log]

\* one iteration of moveIssues' loop over columns
moveColumn(m) ==
    LET column == m.columns[m.k]
        sourceColumnID == getColumnID(column, SourceColumns)
        destColumnID == getColumnID(column, destColumnsOf(m))
        sourceCards == m.cols[sourceColumnID.id]
        deleted == inBucketOrder(m, sourceCards, bucketOrder)
        created == inBucketOrder(m, sourceCards, bucketOrder)
        afterDelete == [m.cols EXCEPT ![sourceColumnID.id] =
                           SelectSeq(@, LAMBDA n : \A j \in 1..Len(deleted) : deleted[j] # n)]
        deleteLog == [j \in 1..Len(deleted) |->
                        [op |-> "DeleteProjectCard", column |-> sourceColumnID.id,
                         issue |-> deleted[j], status |-> 204]]
        after == createCards(afterDelete, m.log \o deleteLog, created, destColumnID.id, m.fail)
        next == IF m.k = Len(m.columns) THEN "done" ELSE "move"
    IN  IF sourceColumnID.err \/ destColumnID.err THEN [m EXCEPT !.pc = "exit"]
        ELSE IF m.dryrun THEN [m EXCEPT !.pc = next, !.k = @ + 1]
        ELSE [m EXCEPT !.pc = next, !.k = @ + 1, !.cols = after.cols, !.log = after.log]

\* main with every board lookup and board update ignoring --dry-run
mainIgnoringDryRun(m, provisioned) ==
    LET created == m.boards = "nodest"
        log == (IF created THEN <<[op |-> "CreateProject", column |-> 0, issue |-> 0, status |-> 201]>>
                ELSE <<>>)
               \o <<[op |-> "UpdateProject", column |-> 0, issue |-> 0, status |-> 200]>>
    IN  IF m.boards = "nosource" THEN [m EXCEPT !.pc = "exit"]
        ELSE [m EXCEPT !.pc = "move", !.destCreated = created, !.sourceState = "closed",
                       !.log = log]

\* main up to the call of moveIssues: the two boards are looked up by name,
\* a missing destination board is created unless --dry-run (provisioned: the
\* poll saw the bot's three columns), and the source board is closed unless
\* --dry-run
main(m, provisioned) ==
    LET create == [op |-> "CreateProject", column |-> 0, issue |-> 0, status |-> 201]
        update == [op |-> "UpdateProject", column |-> 0, issue |-> 0, status |-> 200]
    IN  IF m.boards = "nosource" THEN [m EXCEPT !.pc = "exit"]
        ELSE IF m.boards = "nodest" /\ m.dryrun THEN [m EXCEPT !.pc = "exit"]
        ELSE IF m.boards = "nodest" /\ ~provisioned
            THEN [m EXCEPT !.pc = "exit", !.destCreated = TRUE, !.log = <<create>>]
        ELSE IF m.boards = "nodest"
            THEN [m EXCEPT !.pc = "move", !.destCreated = TRUE, !.sourceState = "closed",
                           !.log = <<create, update>>]
        ELSE IF m.dryrun THEN [m EXCEPT !.pc = "move"]
        ELSE [m EXCEPT !.pc = "move", !.sourceState = "closed", !.log = <<update>>]

\* a run before main: the boards that exist, the flags and the issues' labels
MigRun(b, d, cl, f, il) ==
    [pc |-> "main", boards |-> b, dryrun |-> d, columns |-> cl, k |-> 1, fail |-> f,
     issueLabels |-> il, cols |-> InitialMigCards, log |-> <<>>,
     destCreated |-> FALSE, sourceState |-> "open"]

InitMig ==
    /\ TrackerIdle
    /\ split = Off
    /\ prov = Off
    /\ mig \in {MigRun("both", d, cl, f, il) :
                    d \in BOOLEAN, cl \in ColumnLists, f \in CreateFailures,
                    il \in [MigIssues -> LabelLists]}
               \cup {MigRun(b, d, cl, 0, [n \in MigIssues |-> <<"priority/p1">>]) :
                    b \in {"nodest", "nosource"}, d \in BOOLEAN, cl \in ColumnLists}

Main ==
    /\ mig.pc = "main"
    /\ \E provisioned \in BOOLEAN : mig' = main(mig, provisioned)
    /\ UNCHANGED <<trackerVars, split, prov>>

MoveColumn ==
    /\ mig.pc = "move"
    /\ mig' = moveColumn(mig)
    /\ UNCHANGED <<trackerVars, split, prov>>

NextMig == Main \/ MoveColumn

SpecMig == InitMig /\ [][NextMig]_vars

\* the priority labels of issue n
PriorityLabels(m, n) ==
    {k \in 1..Len(LabelsOfIssue(m, n)) :
        LabelsOfIssue(m, n)[k] \in {"priority/p0", "priority/p1", "priority/p2"}}

\* the place of issue n in the priority order: p0, p1, p2, then no priority
Rank(m, n) ==
    IF PriorityLabels(m, n) = {} THEN 3
    ELSE LET l == LabelsOfIssue(m, n)[MinOf(PriorityLabels(m, n))]
         IN  CASE l = "priority/p0" -> 0 [] l = "priority/p1" -> 1 [] l = "priority/p2" -> 2

\* C5: after a run that is no dry run, in which no call failed and every issue
\* carries at most one priority label, each destination column of the list
\* reads top to bottom: the p0 cards, the p1 cards, the p2 cards, the cards
\* without priority.
C5_DestinationOrderedByPriority ==
    (/\ mig.pc = "done"
     /\ ~mig.dryrun
     /\ mig.fail = 0
     /\ \A n \in MigIssues : Cardinality(PriorityLabels(mig, n)) <= 1)
        => \A k \in 1..Len(mig.columns) :
              LET col == mig.cols[getColumnID(mig.columns[k], destColumnsOf(mig)).id]
              IN  \A i \in 1..Len(col) : \A j \in 1..Len(col) :
                      i < j => Rank(mig, col[i]) <= Rank(mig, col[j])

\* C13: when a column of the list is missing on the source or on the
\* destination board, the run exits with no card deleted and none created for
\* any column of the list, the columns listed before the missing one included.
C13_MissingColumnAbortsWholeRun ==
    (/\ mig.pc = "exit"
     /\ \/ getColumnID(mig.columns[mig.k], SourceColumns).err
        \/ getColumnID(mig.columns[mig.k], destColumnsOf(mig)).err)
        => /\ mig.cols = InitialMigCards
           /\ \A j \in 1..Len(mig.log) :
                 mig.log[j].op \notin {"DeleteProjectCard", "CreateProjectCard"}

\* C14: a dry run issues no mutating call: no card is deleted or created, a
\* missing destination board is not created and the source board stays open;
\* the tracker is as it was before the run.
C14_DryRunChangesNothing ==
    mig.dryrun =>
        /\ mig.log = <<>>
        /\ mig.cols = InitialMigCards
        /\ ~mig.destCreated
        /\ mig.sourceState = "open"

\* C14 witness: a dry run went through both listed columns, whose source
\* columns hold cards.
C14_Witness ==
    /\ mig.dryrun
    /\ mig.pc = "done"
    /\ mig.columns = <<"Triage", "Cherry Pick">>
    /\ \A k \in 1..2 : Len(mig.cols[getColumnID(mig.columns[k], SourceColumns).id]) > 0

\* the calls of kind op the run made on column c, in the order made
LogOf(op, c) == SelectSeq(mig.log, LAMBDA x : x.op = op /\ x.column = c)

\* the place, in the order the buckets are consumed, of the bucket the first
\* priority label of issue n stands for
FirstLabelBucket(m, n) == IF Rank(m, n) = 3 THEN 4 ELSE 3 - Rank(m, n)

\* C24: every card of a migrated source column is put in exactly one bucket,
\* the bucket of the first priority/{p0,p1,p2} label in its issue's label
\* list, or "none" without such a label: the column's cards are deleted once
\* each, the cards of the bucket p2 first, then p1, p0 and none.
C24_FirstPriorityLabelDecides ==
    (mig.pc = "done" /\ ~mig.dryrun) =>
        \A k \in 1..Len(mig.columns) :
            LET c == getColumnID(mig.columns[k], SourceColumns).id
                del == LogOf("DeleteProjectCard", c)
            IN  /\ Len(del) = Len(InitialMigCards[c])
                /\ \A j \in 1..Len(InitialMigCards[c]) :
                       Cardinality({i \in 1..Len(del) : del[i].issue = InitialMigCards[c][j]}) = 1
                /\ \A i \in 1..Len(del) : \A j \in 1..Len(del) :
                       i < j => FirstLabelBucket(mig, del[i].issue) <= FirstLabelBucket(mig, del[j].issue)

\* the place of the bucket moveIssues puts issue n in, in the order p2, p1,
\* p0, none
BucketPlace(m, n) ==
    LET b == bucketOf(priorityOf(LabelsOfIssue(m, n), 1, ""))
    IN  CASE b = "p2" -> 1 [] b = "p1" -> 2 [] b = "p0" -> 3 [] b = "none" -> 4

\* the place of issue n in a sequence of issues holding it
PlaceIn(seq, n) == MinOf({j \in 1..Len(seq) : seq[j] = n})

\* C25: in a run that is no dry run, for each column of the list, every
\* delete-card call on the source column comes before every create-card call
\* on the destination column; the deletions take the buckets in the order
\* p2, p1, p0, none, each bucket in source-column order, and the creations
\* take the same cards in the same order.
C25_DeletesThenCreatesInBucketOrder ==
    (mig.pc \in {"move", "done"} /\ ~mig.dryrun) =>
        \A k \in 1..(mig.k - 1) :
            LET c == getColumnID(mig.columns[k], SourceColumns).id
                d == getColumnID(mig.columns[k], destColumnsOf(mig)).id
                del == LogOf("DeleteProjectCard", c)
                cre == LogOf("CreateProjectCard", d)
                src == InitialMigCards[c]
            IN  /\ \A i \in 1..Len(mig.log) : \A j \in 1..Len(mig.log) :
                       (/\ mig.log[i].op = "DeleteProjectCard" /\ mig.log[i].column = c
                        /\ mig.log[j].op = "CreateProjectCard" /\ mig.log[j].column = d)
                           => i < j
                /\ Len(del) = Len(src)
                /\ \A i \in 1..Len(del) : \A j \in 1..Len(del) :
                       i < j =>
                          \/ BucketPlace(mig, del[i].issue) < BucketPlace(mig, del[j].issue)
                          \/ /\ BucketPlace(mig, del[i].issue) = BucketPlace(mig, del[j].issue)
                             /\ PlaceIn(src, del[i].issue) < PlaceIn(src, del[j].issue)
                /\ [i \in 1..Len(cre) |-> cre[i].issue] = [i \in 1..Len(del) |-> del[i].issue]

\* C25 witness: a run that is no dry run migrated the Triage column, whose
\* cards fell into the four buckets with the last source card in bucket p2,
\* and issued its deletions and creations.
C25_Witness ==
    /\ mig.pc = "done"
    /\ ~mig.dryrun
    /\ {BucketPlace(mig, n) : n \in MigIssues} = 1..4
    /\ BucketPlace(mig, InitialMigCards[31][Len(InitialMigCards[31])]) = 1
    /\ Len(LogOf("DeleteProjectCard", 31)) = Len(InitialMigCards[31])
    /\ Len(LogOf("CreateProjectCard", 41)) = Len(InitialMigCards[31])

\* the CreateProjectCard calls of the run that failed
FailedCreates == {j \in 1..Len(mig.log) : /\ mig.log[j].op = "CreateProjectCard"
                                          /\ mig.log[j].status # 201}

MigratedColumns ==
    {getColumnID(mig.columns[k], SourceColumns).id : k \in 1..Len(mig.columns)}
        \cup {getColumnID(mig.columns[k], destColumnsOf(mig)).id : k \in 1..Len(mig.columns)}

\* the issues with a card in a sequence of cards
IssuesIn(seq) == {seq[j] : j \in 1..Len(seq)}

\* C27: after a run that is no dry run and in which every remote call
\* succeeded, each source column of the list is empty, the destination column
\* of the same name holds the cards it held before and one card for each issue
\* that had a card in the source column, and every other column of the two
\* boards is as it was.
C27_MigrationMovesEveryCard ==
    (/\ mig.pc = "done"
     /\ ~mig.dryrun
     /\ \A j \in 1..Len(mig.log) : mig.log[j].status \in {200, 201, 204})
        => /\ \A k \in 1..Len(mig.columns) :
                 LET c == getColumnID(mig.columns[k], SourceColumns).id
                     d == getColumnID(mig.columns[k], destColumnsOf(mig)).id
                 IN  /\ mig.cols[c] = <<>>
                     /\ IssuesIn(mig.cols[d]) = IssuesIn(InitialMigCards[c]) \cup IssuesIn(InitialMigCards[d])
                     /\ Len(mig.cols[d]) = Len(InitialMigCards[c]) + Len(InitialMigCards[d])
                     /\ \A n \in IssuesIn(InitialMigCards[c]) :
                            Cardinality({j \in 1..Len(mig.cols[d]) : mig.cols[d][j] = n}) = 1
           /\ \A x \in DOMAIN mig.cols :
                 x \notin MigratedColumns => mig.cols[x] = InitialMigCards[x]

\* C27 witness: a run that is no dry run moved the cards of the Triage column
\* to a destination column that held a card before, every call succeeding.
C27_Witness ==
    /\ mig.pc = "done"
    /\ ~mig.dryrun
    /\ mig.boards = "both"
    /\ \A j \in 1..Len(mig.log) : mig.log[j].status \in {200, 201, 204}
    /\ Len(LogOf("DeleteProjectCard", 31)) = Len(InitialMigCards[31])
    /\ Len(LogOf("CreateProjectCard", 41)) = Len(InitialMigCards[31])
    /\ InitialMigCards[31] # <<>> /\ InitialMigCards[41] # <<>>

(***************************************************************************)
(* Specification SpecProv: handleProjectCreatedEvent on a board-created    *)
(* delivery                                                                *)
(***************************************************************************)
\* the names of the created board
ProjectNames == {"18.09-ee-rc1", "17.06.1-ee-1-rc3", "18.09-ee"}

\* the release prefix each board name stands for
ExpectedPrefix ==
    [N \in ProjectNames |->
        CASE N = "18.09-ee-rc1" -> "18.09-ee"
          [] N = "17.06.1-ee-1-rc3" -> "17.06.1-ee-1"
          [] N = "18.09-ee" -> "18.09-ee"]

\* the (owner, name) of the delivery's repository
EventRepos == { <<"docker", "rt">>, <<"docker", "docker">> }

columnsToCreate == <<"Triage", "Cherry Pick", "Cherry Picked">>

\* the keys of labelsToCreate
labelsToCreate(projectName) == canonicalLabels(rcReplaceAll(projectName))

\* Issues.ListLabels(owner, name), every page: [err, labels]
ListLabels(repos, owner, name) ==
    IF <<owner, name>> \in DOMAIN repos /\ repos[<<owner, name>>].exists
    THEN [err |-> FALSE, labels |-> repos[<<owner, name>>].labels]
    ELSE [err |-> TRUE, labels |-> {}]

\* allLabels(name, owner string)
allLabels(repos, name, owner) == ListLabels(repos, owner, name)

\* a CreateProjectColumn loop that goes on after a failed creation
createColumnsContinuing(F) ==
    [aborted |-> FALSE,
     columns |-> SelectSeq(columnsToCreate,
                           LAMBDA c : \A k \in 1..Len(columnsToCreate) :
                                         columnsToCreate[k] = c => k \notin F),
     log |-> [k \in 1..Len(columnsToCreate) |->
                [op |-> "CreateProjectColumn", arg |-> columnsToCreate[k], ok |-> k \notin F]]]

\* the CreateProjectColumn loop: the columns created and the calls logged
createColumns(F) ==
    LET failed == {k \in 1..Len(columnsToCreate) : k \in F}
        n == IF failed = {} THEN Len(columnsToCreate) ELSE MinOf(failed)
    IN  [aborted |-> failed # {},
         columns |-> SubSeq(columnsToCreate, 1, IF failed = {} THEN n ELSE n - 1),
         log |-> [k \in 1..n |->
                    [op |-> "CreateProjectColumn", arg |-> columnsToCreate[k], ok |-> k \notin F]]]

\* the CreateLabel loop over todo (the labels left in labelsToCreate, in the
\* map's iteration order): [repos, log]; the j-th call is the (3 + j)-th
\* mutating call of the run; the tracker refuses a label the repository has
RECURSIVE createLabels(_, _, _, _, _, _)
createLabels(repos, log, todo, j, repo, F) ==
    IF todo = <<>> THEN [repos |-> repos, log |-> log]
    ELSE LET ok == (Len(columnsToCreate) + j) \notin F /\ Head(todo) \notin repos[repo].labels
             entry == [op |-> "CreateLabel", arg |-> Head(todo), ok |-> ok]
         IN  IF ok
             THEN createLabels([repos EXCEPT ![repo].labels = @ \cup {Head(todo)}],
                               Append(log, entry), Tail(todo), j + 1, repo, F)
             ELSE [repos |-> repos, log |-> Append(log, entry)]

\* the handler on run p, with order the iteration order of labelsToCreate
handleProjectCreatedEvent(p, order) ==
    LET owner == p.owner
        name == p.name
        cc == createColumns(p.F)
        names == labelsToCreate(p.projectName)
        existingLabels == allLabels(p.repos, owner, name)
        todo == SelectSeq([k \in 1..Len(order) |-> names[order[k]]],
                          LAMBDA l : l \notin existingLabels.labels)
        cl == createLabels(p.repos, cc.log, todo, 1, <<owner, name>>, p.F)
    IN  IF cc.aborted
        THEN [p EXCEPT !.pc = "done", !.columns = cc.columns, !.log = cc.log]
        ELSE IF 0 \in p.F \/ existingLabels.err
        THEN [p EXCEPT !.pc = "done", !.columns = cc.columns, !.log = cc.log]
        ELSE [p EXCEPT !.pc = "done", !.columns = cc.columns, !.log = cl.log,
                       !.repos = cl.repos, !.listed = TRUE]

Permutations3 == {o \in [1..3 -> 1..3] : \A i \in 1..3 : \A j \in 1..3 : i # j => o[i] # o[j]}

ProvFailSets == {{}} \cup {{k} : k \in 0..6}

\* the repositories of a run: the delivery's, holding pre, and the repository
\* whose owner and name are the delivery's name and owner, which may not exist
ReposOf(r, pre, other) ==
    [k \in {r, <<r[2], r[1]>>} |->
        IF k = r THEN [exists |-> TRUE, labels |-> pre] ELSE other]

InitProv ==
    /\ TrackerIdle
    /\ split = Off
    /\ mig = Off
    /\ prov \in {[pc |-> "start", projectName |-> N, owner |-> r[1], name |-> r[2],
                  repos |-> ReposOf(r, pre, other), pre |-> pre, F |-> F,
                  columns |-> <<>>, log |-> <<>>, listed |-> FALSE] :
                    N \in ProjectNames, r \in EventRepos, F \in ProvFailSets,
                    pre \in SUBSET {"18.09-ee/triage", "18.09-ee/cherry-pick", "bug"},
                    other \in {[exists |-> FALSE, labels |-> {}],
                               [exists |-> TRUE, labels |-> {}],
                               [exists |-> TRUE, labels |-> {"18.09-ee/triage"}]}}

ProjectCreated ==
    /\ prov.pc = "start"
    /\ \E order \in Permutations3 : prov' = handleProjectCreatedEvent(prov, order)
    /\ UNCHANGED <<trackerVars, split, mig>>

NextProv == ProjectCreated

SpecProv == InitProv /\ [][NextProv]_vars

\* the labels the run created
CreatedLabels == {prov.log[j].arg : j \in {i \in 1..Len(prov.log) :
                                              prov.log[i].op = "CreateLabel" /\ prov.log[i].ok}}

\* C8: after a board-created delivery for board N handled with every remote
\* call succeeding, none of the three labels existing in the delivery's
\* repository beforehand, the board has the columns Triage, Cherry Pick,
\* Cherry Picked in that order and exactly the labels P/triage, P/cherry-pick,
\* P/cherry-picked were created in that repository, P being N without its
\* -rc suffix.
C8_ProvisionsColumnsAndLabels ==
    LET P == ExpectedPrefix[prov.projectName]
        want == {P \o "/triage", P \o "/cherry-pick", P \o "/cherry-picked"}
    IN  (/\ prov.pc = "done"
         /\ prov.listed
         /\ \A j \in 1..Len(prov.log) : prov.log[j].ok
         /\ prov.pre \cap want = {})
            => /\ prov.columns = <<"Triage", "Cherry Pick", "Cherry Picked">>
               /\ CreatedLabels = want
               /\ prov.repos[<<prov.owner, prov.name>>].labels = prov.pre \cup want

\* the labels the run issued a CreateLabel call for
CreateLabelCalls == {prov.log[j].arg : j \in {i \in 1..Len(prov.log) :
                                                 prov.log[i].op = "CreateLabel"}}

\* the three labels of the created board
WantedLabels == {labelsToCreate(prov.projectName)[k] : k \in 1..3}

\* C21: on a board-created delivery for repository (owner, name) on which no
\* remote call is made to fail, the existing labels consulted are those of
\* that repository: a CreateLabel call is issued for exactly the canonical
\* labels the repository does not hold yet.
C21_SkipsExistingLabels ==
    (prov.pc = "done" /\ prov.F = {})
        => CreateLabelCalls = WantedLabels \ prov.pre

\* C22: a failed creation is the last call of the run (no later column, no
\* label after a failed column, no label after a failed label), and what was
\* created before it stays: the board has the columns created so far and the
\* repository its earlier labels plus the labels created so far.
C22_FailureAbortsRemaining ==
    prov.pc = "done" =>
        /\ \A j \in 1..Len(prov.log) : ~prov.log[j].ok => j = Len(prov.log)
        /\ prov.columns = [k \in 1..Cardinality({j \in 1..Len(prov.log) :
                                    /\ prov.log[j].op = "CreateProjectColumn"
                                    /\ prov.log[j].ok}) |-> columnsToCreate[k]]
        /\ prov.repos[<<prov.owner, prov.name>>].labels = prov.pre \cup CreatedLabels

\* C22 witness: the second label creation failed after the three columns and
\* one label were created.
C22_Witness ==
    /\ prov.pc = "done"
    /\ Len(prov.log) = 5
    /\ prov.log[4].op = "CreateLabel" /\ prov.log[4].ok
    /\ ~prov.log[5].ok
    /\ prov.F = {5}
    /\ Len(prov.columns) = 3

(***************************************************************************)
(* Specification SpecRace: goroutines of handleLabelEvent for one issue,   *)
(* interleaved at their tracker calls                                      *)
(***************************************************************************)
\* the goroutines followed
MaxGoroutines == 2

Goroutines == 1..MaxGoroutines

\* the issue the labeled deliveries are about
RaceIssue == CHOOSE n \in Issues : n \notin PullRequests

\* the labels of the labeled deliveries
RaceLabels == {Release \o "/triage", Release \o "/cherry-pick"}

\* a goroutine that has not been started
Idle ==
    [pc |-> "idle", issue |-> 0, label |-> "", project |-> 0, k |-> 0,
     columnID |-> 0, cardID |-> 0, sourceColumn |-> 0]

\* the start of handleLabelEvent, up to the column listing
startLabelEvent(e) ==
    LET sl == splitLabel(e.label)
        project == getProject(sl.prefix)
    IN  IF sl.err \/ project.err THEN [Idle EXCEPT !.pc = "done"]
        ELSE [Idle EXCEPT !.pc = "scan", !.issue = e.issue, !.label = e.label,
                          !.project = project.id, !.k = 1]

\* one iteration of the loop over columns, on card state cs
scanColumn(p, cs) ==
    LET columns == ListProjectColumns(p.project)
        column == columns[p.k]
        listed == ListProjectCards(cs, column.id)
        hit == {j \in 1..Len(listed) : listed[j].content_url = IssueURL(p.issue)}
        columnName == columnNameFor(splitLabel(p.label).suffix)
    IN  [p EXCEPT !.columnID = IF column.name = columnName THEN column.id ELSE @,
                  !.cardID = IF hit = {} THEN @ ELSE listed[Max(hit)].id,
                  !.sourceColumn = IF hit = {} THEN @ ELSE column.id,
                  !.k = @ + 1,
                  !.pc = IF p.k = Len(columns) THEN "act" ELSE "scan"]

\* the rest of handleLabelEvent after the loop, on card state cs: [cards, calls]
actOnCard(p, cs) ==
    IF p.columnID = 0 THEN [cards |-> cs, calls |-> <<>>]
    ELSE IF p.cardID = 0 THEN
        LET ok == CreateCardOK(cs, p.columnID, p.issue)
        IN  [cards |-> IF ok THEN CreateCard(cs, p.columnID, p.issue) ELSE cs,
             calls |-> <<Call("CreateProjectCard", p.columnID, p.issue, "Issue", ok)>>]
    ELSE IF p.sourceColumn = p.columnID THEN [cards |-> cs, calls |-> <<>>]
    ELSE
        LET ok == MoveCardOK(cs, p.cardID, p.columnID)
        IN  [cards |-> IF ok THEN MoveCard(cs, p.cardID, p.columnID) ELSE cs,
             calls |-> <<Call("MoveProjectCard", p.columnID, CardIssue(p.cardID), "top", ok)>>]

raceIdleVars == <<labels, pending, last, chain, split, mig, prov, tick, lookup, poll, opened, agree>>

InitRace ==
    /\ cards \in {[c \in ColumnIDs |-> IF c = c0 THEN <<RaceIssue>> ELSE <<>>] :
                    c0 \in {0} \cup ColumnsOf(OpenBoard)}
    /\ labels = [n \in Issues |-> {}]
    /\ pending = {}
    /\ calls = <<>>
    /\ last = "init"
    /\ chain = NoChain
    /\ split = Off
    /\ mig = Off
    /\ prov = Off
    /\ procs = [g \in Goroutines |-> Idle]
    /\ tick = 0
    /\ lookup = Off
    /\ poll = Off
    /\ opened = Off
    /\ agree = Off

\* handleGithubWebhook starts goroutine g on a labeled delivery
Dispatch(g, l) ==
    /\ procs[g].pc = "idle"
    /\ procs' = [procs EXCEPT ![g] = startLabelEvent(LabelEvent("labeled", RaceIssue, l))]
    /\ UNCHANGED <<cards, calls, raceIdleVars>>

\* goroutine g lists the cards of its next column
ScanColumn(g) ==
    /\ procs[g].pc = "scan"
    /\ procs' = [procs EXCEPT ![g] = scanColumn(procs[g], cards)]
    /\ UNCHANGED <<cards, calls, raceIdleVars>>

\* goroutine g creates or moves the card, or returns
ActOnCard(g) ==
    /\ procs[g].pc = "act"
    /\ cards' = actOnCard(procs[g], cards).cards
    /\ calls' = calls \o actOnCard(procs[g], cards).calls
    /\ procs' = [procs EXCEPT ![g].pc = "done"]
    /\ UNCHANGED raceIdleVars

NextRace ==
    \/ \E g \in Goroutines : \E l \in RaceLabels : Dispatch(g, l)
    \/ \E g \in Goroutines : ScanColumn(g)
    \/ \E g \in Goroutines : ActOnCard(g)

SpecRace == InitRace /\ [][NextRace]_vars

MaxColumnCards == 31

\* the issue of the j-th other card of the long column
FillerIssue(j) == 100 + j

\* the long column's cards, top first, with issue n's card at position p
LongColumn(n, p) ==
    [j \in 1..MaxColumnCards |-> IF j = p THEN n ELSE FillerIssue(j)]

InitPage ==
    /\ \E c \in ColumnsOf(OpenBoard) : \E p \in 1..MaxColumnCards :
          cards = [d \in ColumnIDs |-> IF d = c THEN LongColumn(RaceIssue, p) ELSE <<>>]
    /\ \E l \in Canonical :
          /\ labels = [n \in Issues |-> IF n = RaceIssue THEN {l} ELSE {}]
          /\ pending = {LabelEvent("labeled", RaceIssue, l)}
    /\ calls = <<>>
    /\ last = "user"
    /\ chain = NoChain
    /\ split = Off
    /\ mig = Off
    /\ prov = Off
    /\ procs = NoProcs
    /\ tick = 0
    /\ lookup = Off
    /\ poll = Off
    /\ opened = Off
    /\ agree = Off

NextPage == \E e \in pending, F \in FailSets : HandleLabelEvent(e, F)

SpecPage == InitPage /\ [][NextPage]_vars

\* C17: when the board holds a card for the issue, in whatever column and at
\* whatever position of it, handleLabelEvent treats the card as existing: it
\* issues no create-card call, and when no call fails the card is in the
\* label's column afterwards.
C17_FindsCardOnAnyPage ==
    [][\A l \in Canonical : \A F \in FailSets :
          (/\ HandleLabelEvent(LabelEvent("labeled", RaceIssue, l), F)
           /\ CardCount(cards, OpenBoard, RaceIssue) = 1)
              => /\ \A j \in 1..Len(calls') : calls'[j].op # "CreateProjectCard"
                 /\ F = {} => CardColumn(cards', OpenBoard, RaceIssue) = ColumnOfLabel[l]]_vars

(***************************************************************************)
(* Specification SpecBoards: getProject on a repository with more boards   *)
(* than one page of a listing                                              *)
(***************************************************************************)
\* the boards of the repository
MaxBoards == 31

\* the repository's boards in listing order: the board 18.09-ee-rc1 at
\* position p in state sp, the open board 18.09-ee-rc2 at position q (none
\* when q is 0), every other board of another release and in state fs
BoardList(p, sp, q, fs) ==
    [j \in 1..MaxBoards |->
        IF j = p THEN [id |-> j, name |-> "18.09-ee-rc1", state |-> sp]
        ELSE IF j = q THEN [id |-> j, name |-> "18.09-ee-rc2", state |-> "open"]
        ELSE [id |-> j, name |-> "17.06-ee-rc" \o ToString(j), state |-> fs]]

\* the release prefixes looked up
LookupPrefixes == {"18.09-ee", "19.03-ee"}

NoProject == [err |-> FALSE, id |-> 0, name |-> ""]

InitBoards ==
    /\ cards = [c \in ColumnIDs |-> <<>>]
    /\ labels = [n \in Issues |-> {}]
    /\ pending = {}
    /\ calls = <<>>
    /\ last = "init"
    /\ chain = NoChain
    /\ procs = NoProcs
    /\ tick = 0
    /\ split = Off
    /\ mig = Off
    /\ prov = Off
    /\ poll = Off
    /\ opened = Off
    /\ agree = Off
    /\ lookup \in {[pc |-> "call", boards |-> BoardList(p, sp, q, fs), prefix |-> x,
                    out |-> NoProject] :
                      p \in 1..MaxBoards, sp \in {"open", "closed"},
                      q \in {0, 1, MaxBoards - 1, MaxBoards},
                      fs \in {"open", "closed"}, x \in LookupPrefixes}

GetProject ==
    /\ lookup.pc = "call"
    /\ lookup' = [lookup EXCEPT !.pc = "done", !.out = getProjectOf(lookup.boards, lookup.prefix)]
    /\ UNCHANGED <<cards, labels, pending, calls, last, chain, procs, tick, split, mig, prov,
                   poll, opened, agree>>

NextBoards == GetProject

SpecBoards == InitBoards /\ [][NextBoards]_vars

\* C18: getProject returns the first board, in listing order over all the
\* repository's boards, that is open and whose name starts with the prefix;
\* it returns an error only when no open board has the prefix, and never a
\* closed board.
C18_FirstOpenBoardOnAnyPage ==
    lookup.pc = "done" =>
        LET hits == OpenMatches(lookup.boards, lookup.prefix)
        IN  /\ lookup.out.err <=> hits = {}
            /\ hits # {} => lookup.out.id = lookup.boards[MinOf(hits)].id

(***************************************************************************)
(* Specification SpecPoll: transfer-cards' createProject with its          *)
(* releaseBotDone poll, one ListProjectColumns call at a time              *)
(***************************************************************************)
\* the largest column count a check of the new board may observe
MaxColumnsSeen == 4

\* what one ListProjectColumns call of the poll may answer: an error or the
\* board's columns, of which only the number is used
PollAnswers == {[err |-> TRUE, n |-> 0]} \cup {[err |-> FALSE, n |-> n] : n \in 0..MaxColumnsSeen}

\* createProject before its CreateProject call
PollStart ==
    [pc |-> "create", retries |-> 0, columnsLength |-> 0, seen |-> <<>>, sleeps |-> 0,
     finished |-> FALSE, err |-> FALSE, project |-> FALSE]

\* the condition of releaseBotDone's for loop
releaseBotDoneLoop(p) == p.retries < 4 /\ p.columnsLength # 3

\* one iteration of releaseBotDone's loop, the listing answering a
releaseBotDoneCheck(p, a) ==
    IF a.err
    THEN [p EXCEPT !.pc = "returned", !.seen = Append(@, a), !.finished = FALSE, !.err = TRUE]
    ELSE [p EXCEPT !.seen = Append(@, a), !.columnsLength = a.n, !.retries = @ + 1,
                   !.sleeps = @ + 1]

\* releaseBotDone after its loop
releaseBotDoneReturn(p) ==
    [p EXCEPT !.pc = "returned", !.finished = (p.columnsLength = 3), !.err = FALSE]

\* createProject up to its call of releaseBotDone, CreateProject answering ok
createProject(p, ok) ==
    IF ~ok THEN [p EXCEPT !.pc = "done", !.err = TRUE, !.project = FALSE]
    ELSE [p EXCEPT !.pc = "poll", !.columnsLength = 0, !.retries = 1]

\* createProject after releaseBotDone returned
createProjectReturn(p) ==
    [p EXCEPT !.pc = "done", !.project = (~p.err /\ p.finished), !.err = ~(~p.err /\ p.finished)]

\* getProject and main after createProject: exit, or on to moveIssues
mainAfterCreate(p) == [p EXCEPT !.pc = IF p.err THEN "exit" ELSE "move"]

InitPoll ==
    /\ cards = [c \in ColumnIDs |-> <<>>]
    /\ labels = [n \in Issues |-> {}]
    /\ pending = {}
    /\ calls = <<>>
    /\ last = "init"
    /\ chain = NoChain
    /\ procs = NoProcs
    /\ tick = 0
    /\ lookup = Off
    /\ split = Off
    /\ mig = Off
    /\ prov = Off
    /\ opened = Off
    /\ agree = Off
    /\ poll = PollStart

pollIdleVars == <<cards, labels, pending, calls, last, chain, procs, tick, lookup, split, mig, prov,
                  opened, agree>>

CreateProject ==
    /\ poll.pc = "create"
    /\ \E ok \in BOOLEAN : poll' = createProject(poll, ok)
    /\ UNCHANGED pollIdleVars

ReleaseBotDoneCheck ==
    /\ poll.pc = "poll"
    /\ releaseBotDoneLoop(poll)
    /\ \E a \in PollAnswers : poll' = releaseBotDoneCheck(poll, a)
    /\ UNCHANGED pollIdleVars

ReleaseBotDoneReturn ==
    /\ poll.pc = "poll"
    /\ ~releaseBotDoneLoop(poll)
    /\ poll' = releaseBotDoneReturn(poll)
    /\ UNCHANGED pollIdleVars

CreateProjectReturn ==
    /\ poll.pc = "returned"
    /\ poll' = createProjectReturn(poll)
    /\ UNCHANGED pollIdleVars

MainAfterCreate ==
    /\ poll.pc = "done"
    /\ poll' = mainAfterCreate(poll)
    /\ UNCHANGED pollIdleVars

NextPoll ==
    \/ CreateProject
    \/ ReleaseBotDoneCheck
    \/ ReleaseBotDoneReturn
    \/ CreateProjectReturn
    \/ MainAfterCreate

SpecPoll == InitPoll /\ [][NextPoll]_vars

\* the checks of the poll that observed a column count
ColumnChecks == {j \in 1..Len(poll.seen) : ~poll.seen[j].err}

OpenedLabelPool ==
    << "18.09-ee/triage", "17.06-ee/triage", "18.09-ee/cherry-pick", "bug",
       "18.09-ee/triaged", "a/b/triage" >>

\* the repository's boards, in listing order
OpenedBoards ==
    { <<>>,
      << [id |-> 1, name |-> "18.09-ee-rc1", state |-> "open"] >>,
      << [id |-> 1, name |-> "17.06-ee-rc2", state |-> "closed"],
         [id |-> 2, name |-> "18.09-ee-rc1", state |-> "open"] >>,
      << [id |-> 1, name |-> "17.06-ee-rc2", state |-> "open"],
         [id |-> 2, name |-> "18.09-ee-rc1", state |-> "open"] >> }

\* the remote call of the run that fails ("": none)
OpenedFailures == {"", "ListLabels", "ListLabelsByIssue", "AddLabelsToIssue"}

\* regexp.MatchString(".*/triage", name): the pattern is not anchored, it
\* matches a name that holds "/triage" anywhere
matchTriage(name) == Index(name, "/triage", 1) # 0

\* the loop over the repository's labels: [err, labelsToApply]
RECURSIVE labelsToApply(_, _, _, _)
labelsToApply(boards, appliedLabels, todo, acc) ==
    IF todo = <<>> THEN [err |-> FALSE, labels |-> acc]
    ELSE LET name == Head(todo)
             sp == splitLabel(name)
         IN  IF ~matchTriage(name)
             THEN labelsToApply(boards, appliedLabels, Tail(todo), acc)
             ELSE IF sp.err THEN [err |-> TRUE, labels |-> <<>>]
             ELSE IF getProjectOf(boards, sp.prefix).err
             THEN labelsToApply(boards, appliedLabels, Tail(todo), acc)
             ELSE IF name \notin appliedLabels
             THEN labelsToApply(boards, appliedLabels, Tail(todo), Append(acc, name))
             ELSE labelsToApply(boards, appliedLabels, Tail(todo), acc)

\* the handler on run o
handleIssueOpenedEvent(o) ==
    LET r == labelsToApply(o.boards, o.applied, o.repoLabels, <<>>)
        ok == o.fail # "AddLabelsToIssue"
    IN  IF o.fail \in {"ListLabels", "ListLabelsByIssue"} THEN [o EXCEPT !.pc = "done"]
        ELSE IF r.err THEN [o EXCEPT !.pc = "done"]
        ELSE IF Len(r.labels) > 0
        THEN [o EXCEPT !.pc = "done",
                       !.calls = <<[op |-> "AddLabelsToIssue", labels |-> r.labels, ok |-> ok]>>,
                       !.applied = IF ok THEN @ \cup {r.labels[j] : j \in 1..Len(r.labels)} ELSE @]
        ELSE [o EXCEPT !.pc = "done"]

openedIdleVars == <<cards, labels, pending, calls, last, chain, procs, tick, lookup, split, mig,
                    prov, poll, agree>>

InitOpened ==
    /\ cards = [c \in ColumnIDs |-> <<>>]
    /\ labels = [n \in Issues |-> {}]
    /\ pending = {}
    /\ calls = <<>>
    /\ last = "init"
    /\ chain = NoChain
    /\ procs = NoProcs
    /\ tick = 0
    /\ lookup = Off
    /\ split = Off
    /\ mig = Off
    /\ prov = Off
    /\ poll = Off
    /\ agree = Off
    /\ opened \in {[pc |-> "start",
                     repoLabels |-> SelectSeq(OpenedLabelPool, LAMBDA l : l \in held),
                     boards |-> b, before |-> a, applied |-> a, fail |-> f, calls |-> <<>>] :
                        held \in SUBSET {OpenedLabelPool[j] : j \in 1..Len(OpenedLabelPool)},
                        b \in OpenedBoards,
                        a \in SUBSET {"18.09-ee/triage", "bug"},
                        f \in OpenedFailures}

IssueOpened ==
    /\ opened.pc = "start"
    /\ opened' = handleIssueOpenedEvent(opened)
    /\ UNCHANGED openedIdleVars

NextOpened == IssueOpened

SpecOpened == InitOpened /\ [][NextOpened]_vars

\* the name is P/triage for a release P of which an open board exists
TriageOfOpenBoard(boards, name) ==
    /\ Len(name) >= Len("/triage")
    /\ SubSeq(name, Len(name) - Len("/triage") + 1, Len(name)) = "/triage"
    /\ OpenMatches(boards, SubSeq(name, 1, Len(name) - Len("/triage"))) # {}

\* C28: an issue-opened delivery whose reads succeed adds to the issue
\* exactly the repository's labels P/triage of which an open board with name
\* prefix P exists and which the issue does not carry yet: no label of a
\* release without open board, no label already applied, and no add-label
\* call at all when there is no such label.
C28_AddsTriageOfOpenBoards ==
    (opened.pc = "done" /\ opened.fail \notin {"ListLabels", "ListLabelsByIssue"}) =>
        LET want == {opened.repoLabels[j] : j \in {i \in 1..Len(opened.repoLabels) :
                        /\ TriageOfOpenBoard(opened.boards, opened.repoLabels[i])
                        /\ opened.repoLabels[i] \notin opened.before}}
            asked == UNION {{opened.calls[c].labels[j] : j \in 1..Len(opened.calls[c].labels)} :
                               c \in 1..Len(opened.calls)}
        IN  /\ asked = want
            /\ want = {} => opened.calls = <<>>

(***************************************************************************)
(* Specification SpecAgree: a board name through provisioning              *)
(* (handleProjectCreatedEvent), label resolution (handleLabelEvent) and    *)
(* Placement->Label (handleProjectCardChangedEvent)                        *)
(***************************************************************************)
\* the board names tried: a stem followed by a tail
NameStems == {"18.09-ee", "17.06.1-ee-1", "a-rcb", "18.09/ee", "a"}

NameTails == {"", "-rc1", "-rc", "-rc1-rc2"}

BoardNames == {stem \o tail : stem \in NameStems, tail \in NameTails}

\* the other boards of the repository, listed before or after the board
OtherBoards ==
    { <<>>,
      << [id |-> 1, name |-> "18.09-ee-rc0", state |-> "closed"] >>,
      << [id |-> 1, name |-> "19.03-ee-rc1", state |-> "open"] >>,
      << [id |-> 1, name |-> "a-rc0", state |-> "closed"],
         [id |-> 2, name |-> "18.09-ee-rc0", state |-> "open"] >> }

\* the board's id
AgreeBoard == 3

\* the prefix and the label names handleProjectCreatedEvent builds for run a
provisionBoard(a) ==
    [a EXCEPT !.pc = "provisioned", !.prefix = rcReplaceAll(a.name),
              !.created = labelsToCreate(a.name)]

\* handleLabelEvent up to its board: splitLabel, then getProject on the
\* prefix, for each label provisioned
resolveLabels(a) ==
    [a EXCEPT !.pc = "resolved",
              !.resolved = [k \in 1..Len(a.created) |->
                              LET sp == splitLabel(a.created[k])
                              IN  IF sp.err THEN [err |-> TRUE, id |-> 0, name |-> ""]
                                  ELSE getProjectOf(a.boards, sp.prefix)]]

\* the labelPrefix of handleProjectCardChangedEvent for a card on the board
placementPrefix(a) ==
    [a EXCEPT !.pc = "done", !.labelPrefix = rcReplaceAll(a.name)]

agreeIdleVars == <<cards, labels, pending, calls, last, chain, procs, tick, lookup, split, mig,
                   prov, poll, opened>>

InitAgree ==
    /\ cards = [c \in ColumnIDs |-> <<>>]
    /\ labels = [n \in Issues |-> {}]
    /\ pending = {}
    /\ calls = <<>>
    /\ last = "init"
    /\ chain = NoChain
    /\ procs = NoProcs
    /\ tick = 0
    /\ lookup = Off
    /\ split = Off
    /\ mig = Off
    /\ prov = Off
    /\ poll = Off
    /\ opened = Off
    /\ agree \in {[pc |-> "created", name |-> N,
                    boards |-> IF first
                               THEN <<[id |-> AgreeBoard, name |-> N, state |-> "open"]>> \o others
                               ELSE others \o <<[id |-> AgreeBoard, name |-> N, state |-> "open"]>>,
                    prefix |-> "", created |-> <<>>, resolved |-> <<>>, labelPrefix |-> ""] :
                        N \in BoardNames, others \in OtherBoards, first \in BOOLEAN}

ProvisionBoard ==
    /\ agree.pc = "created"
    /\ agree' = provisionBoard(agree)
    /\ UNCHANGED agreeIdleVars

ResolveLabels ==
    /\ agree.pc = "provisioned"
    /\ agree' = resolveLabels(agree)
    /\ UNCHANGED agreeIdleVars

PlacementPrefix ==
    /\ agree.pc = "resolved"
    /\ agree' = placementPrefix(agree)
    /\ UNCHANGED agreeIdleVars

NextAgree == ProvisionBoard \/ ResolveLabels \/ PlacementPrefix

SpecAgree == InitAgree /\ [][NextAgree]_vars

\* C29: for every board name N the prefix P provisioning strips it to is a
\* string prefix of N; when N is the only open board whose name starts with
\* P, each of the three labels provisioned for N resolves to the board N;
\* and the prefix Placement->Label computes for a card on N is P.
C29_PrefixAgreement ==
    agree.pc = "done" =>
        /\ HasPrefix(agree.name, agree.prefix)
        /\ agree.labelPrefix = agree.prefix
        /\ Len(agree.created) = 3
        /\ (\A j \in OpenMatches(agree.boards, agree.prefix) : agree.boards[j].id = AgreeBoard)
              => \A k \in 1..Len(agree.created) :
                    /\ ~agree.resolved[k].err
                    /\ agree.resolved[k].id = AgreeBoard
                    /\ agree.resolved[k].name = agree.name
====
